---------------------------- MODULE Spec2Model ----------------------------
(***************************************************************************)
(* A model of the node-mojo REST client (src/src/client.js) and of its     *)
(* members resource client (src/unnamed/part_000).                         *)
(*                                                                         *)
(* Client instances are objects of a heap; a call of an operation builds   *)
(* one HTTP request, which stays in flight until the transport invokes     *)
(* the call's response callback; the callback settles the call's promise   *)
(* and, for login, stores the access token on the instance.                *)
(***************************************************************************)
EXTENDS Integers, Sequences, FiniteSets, Bags, TLC

(***************************************************************************)
(* JavaScript values.  Every scalar is a string; Undef stands for          *)
(* undefined, null and a missing property.                                 *)
(***************************************************************************)
Undef == "<undefined>"

\* The operand of `if (x)`, `x || y`, `x && y`.
Falsy(v) == v \in {Undef, ""}

Truthy(v) == ~Falsy(v)

\* a || b
Or(a, b) == IF Falsy(a) THEN b ELSE a

\* _.defaults on one property: only an undefined value is replaced.
Defaults(v, d) == IF v = Undef THEN d ELSE v

\* util.format's %s.
Fmt(v) == IF v = Undef THEN "undefined" ELSE v

\* util.format('%s/%s/...', a, b, ...): the path as the tuple of its segments.
Format(segments) == [i \in DOMAIN segments |-> Fmt(segments[i])]

(***************************************************************************)
(* Bounds and input domains.                                               *)
(***************************************************************************)
\* Calls a concurrent caller keeps in flight at once.
MaxInflight == 2

\* The heap: the instance the caller constructs, and one derived from it.
Objects == {"c1", "c2"}

\* Session tokens the remote service issues (JSON Web Tokens with an owner).
SessionTokens == {"jwtA", "jwtB"}

\* A well-formed JSON Web Token whose payload has no owner.
OwnerlessToken == "jwtNoOwner"

\* What a caller may hand to logout.
LogoutTokens == SessionTokens \cup {OwnerlessToken, "garbage", Undef}

\* What the token of an instance may be set to by its caller.
TokenValues == SessionTokens \cup {Undef}

Models == {"members", ""}

Ids == {"1", ""}

Docs == {"docA"}

\* An argument in an options/query position: nothing, a string, an object
\* of query-string parameters, or the legacy callback function.
Value(type, str, filter, limit) ==
    [type |-> type, str |-> str, filter |-> filter, limit |-> limit]

NoValue == Value("undefined", Undef, Undef, Undef)

StringValue(s) == Value("string", s, Undef, Undef)

ObjectValue(filter, limit) == Value("object", Undef, filter, limit)

EmptyObject == ObjectValue(Undef, Undef)

FunctionValue == Value("function", Undef, Undef, Undef)

\* _.isFunction, _.isString
IsFunction(v) == v.type = "function"

IsString(v) == v.type = "string"

\* An empty string is the only falsy argument that is not undefined.
FalsyValue(v) == v.type = "undefined" \/ (v.type = "string" /\ v.str = "")

QueryOptions == {NoValue, ObjectValue("abc", Undef), ObjectValue(Undef, "10"),
                 FunctionValue}

FindQueries == QueryOptions \cup {StringValue("abc"), StringValue("")}


\* The credentials argument of login.
Credentials(type, client_id, client_secret, username, password) ==
    [type |-> type, client_id |-> client_id, client_secret |-> client_secret,
     username |-> username, password |-> password]

NoCredentials == Credentials("undefined", Undef, Undef, Undef, Undef)

\* The options argument of login.
LoginOptions(type, grant_type) == [type |-> type, grant_type |-> grant_type]

NoLoginOptions == LoginOptions("undefined", Undef)

Usernames == {Undef, "", "alice"}

Passwords == {Undef, "pw"}

GrantTypes == {Undef, "", "refresh_token"}

CredentialArgs ==
    {NoCredentials, Credentials("function", Undef, Undef, Undef, Undef),
     Credentials("object", "other", "other's", "alice", "pw")}
    \cup {Credentials("object", Undef, Undef, u, p) :
            u \in Usernames, p \in Passwords}

LoginOptionArgs ==
    {NoLoginOptions, LoginOptions("function", Undef)}
    \cup {LoginOptions("object", g) : g \in GrantTypes}

(***************************************************************************)
(* HTTP requests and what the transport hands to the response callback.    *)
(***************************************************************************)
Auth(type, username, password, bearer) ==
    [type |-> type, username |-> username, password |-> password,
     bearer |-> bearer]

NoAuth == Auth("none", Undef, Undef, Undef)

Form(grant_type, username, password) ==
    [grant_type |-> grant_type, username |-> username, password |-> password]

NoForm == Form(Undef, Undef, Undef)

Request(verb, url, auth, form, body, qs) ==
    [verb |-> verb, url |-> url, auth |-> auth, form |-> form, body |-> body,
     qs |-> qs, json |-> TRUE]

Body(error_description, error, access_token) ==
    [error_description |-> error_description, error |-> error,
     access_token |-> access_token]

NoBody == Body(Undef, Undef, Undef)

StatusCodes == {200, 399, 400, 500}

NoResponse == [statusCode |-> 0]

(***************************************************************************)
(* The values a promise is settled with and a callback is handed: the      *)
(* transport's error object, an Error made by new Error(text), an          *)
(* exception caught by the call, a string, undefined, or a response body.  *)
(***************************************************************************)
JsValue(kind, text, body) == [kind |-> kind, text |-> text, body |-> body]

Undefined == JsValue("undefined", Undef, NoBody)

\* The error object the transport reports; text names it.
TransportError(text) == JsValue("transport", text, NoBody)

\* new Error(text): the message of new Error(undefined) is ''.
NewError(text) == JsValue("Error", IF text = Undef THEN "" ELSE text, NoBody)

\* A property of the body as a value: a string, or undefined.
Scalar(text) == IF text = Undef THEN Undefined ELSE JsValue("string", text, NoBody)

\* The parsed response body.
BodyValue(body) == JsValue("body", Undef, body)

\* The exception of class `class` a try block caught.
Caught(class) == JsValue(class, Undef, NoBody)

\* if (err)
IsSet(value) == value.kind # "undefined"

Settlement(how, value) == [how |-> how, value |-> value]

Resolve(value) == Settlement("resolve", value)

Reject(value) == Settlement("reject", value)

\* What the transport hands to the response callback: (err, response, body).
Outcome(err, response, body) ==
    [err |-> err, response |-> response, body |-> body]

TransportFailure == Outcome(TransportError("ECONNRESET"), NoResponse, NoBody)

\* The bodies the transport parses (json: true): JSON objects.
Bodies ==
    {Body(d, e, Undef) : d \in {Undef, "", "denied"}, e \in {Undef, "unauthorized"}}
    \cup {Body(Undef, Undef, t) : t \in SessionTokens}
    \cup {Body("denied", "unauthorized", "jwtA")}

Outcomes ==
    {TransportFailure}
    \cup {Outcome(Undefined, [statusCode |-> s], b) :
            s \in StatusCodes, b \in Bodies}

(***************************************************************************)
(* Client instances.                                                       *)
(***************************************************************************)
ClientObject(cls, url, version, client_id, client_secret, token) ==
    [cls |-> cls, url |-> url, version |-> version, client_id |-> client_id,
     client_secret |-> client_secret, token |-> token]

\* A heap cell that holds no instance yet.
NoClient == ClientObject("none", Undef, Undef, Undef, Undef, Undef)

\* new Client(options): options is an options object or another instance.
Constructor(cls, options) ==
    ClientObject(cls, options.url, Or(options.version, "v1"),
                 options.client_id, options.client_secret, options.token)

\* Members.model
MembersModel == "members"

\* jwt_decode(token): the payload's owner, or the decoder throws.
JwtDecode(token) ==
    IF token \in SessionTokens THEN [ok |-> TRUE, owner |-> "owner"]
    ELSE IF token = OwnerlessToken THEN [ok |-> TRUE, owner |-> Undef]
    ELSE [ok |-> FALSE, owner |-> Undef]

(***************************************************************************)
(* What a call of an operation does before it returns its promise: the     *)
(* requests it hands to the transport and the settlements it makes itself, *)
(* with the callback (op) that will handle the response.                   *)
(***************************************************************************)
Call(op, requests, settles) ==
    [op |-> op, requests |-> requests, settles |-> settles]

\* A bearer credential that leaves the token out.
BearerAuthAnonymous(this) == Auth("bearer", Undef, Undef, Undef)

\* auth: { bearer: this.token }
BearerAuth(this) == Auth("bearer", Undef, Undef, this.token)

\* login where a username or a password alone selects the password grant.
LoginCallEitherCredential(this, creds, options) ==
    LET creds1 == IF IsFunction(creds) THEN NoCredentials ELSE creds
        options1 == IF IsFunction(options) THEN NoLoginOptions ELSE options
        creds2 == [creds1 EXCEPT !.type = "object"]
        options2 == [options1 EXCEPT !.type = "object"]
        creds3 == [creds2 EXCEPT !.client_id = Defaults(@, this.client_id),
                                 !.client_secret = Defaults(@, this.client_secret)]
        options3 == IF Truthy(creds3.username) \/ Truthy(creds3.password)
                    THEN [options2 EXCEPT !.grant_type = Or(@, "password")]
                    ELSE options2
        options4 == [options3 EXCEPT
                       !.grant_type = Defaults(@, "client_credentials")]
    IN  Call("login",
             <<Request("POST", Format(<<this.url, "session">>),
                       Auth("basic", creds3.client_id, creds3.client_secret, Undef),
                       Form(options4.grant_type, Or(creds3.username, Undef),
                            Or(creds3.password, Undef)),
                       Undef, NoValue)>>,
             <<>>)

LoginCall(this, creds, options) ==
    LET creds1 == IF IsFunction(creds) THEN NoCredentials ELSE creds
        options1 == IF IsFunction(options) THEN NoLoginOptions ELSE options
        \* creds = creds || {}; options = options || {}
        creds2 == [creds1 EXCEPT !.type = "object"]
        options2 == [options1 EXCEPT !.type = "object"]
        creds3 == [creds2 EXCEPT !.client_id = Defaults(@, this.client_id),
                                 !.client_secret = Defaults(@, this.client_secret)]
        options3 == IF Truthy(creds3.username) /\ Truthy(creds3.password)
                    THEN [options2 EXCEPT !.grant_type = Or(@, "password")]
                    ELSE options2
        options4 == [options3 EXCEPT
                       !.grant_type = Defaults(@, "client_credentials")]
    IN  Call("login",
             <<Request("POST", Format(<<this.url, "session">>),
                       Auth("basic", creds3.client_id, creds3.client_secret, Undef),
                       Form(options4.grant_type, Or(creds3.username, Undef),
                            Or(creds3.password, Undef)),
                       Undef, NoValue)>>,
             <<>>)

\* logout whose catch block rejects without returning.
LogoutCallFallingThrough(this, token) ==
    LET session == JwtDecode(token)
        request == Request("DELETE", Format(<<this.url, "session", token>>),
                           NoAuth, NoForm, Undef, NoValue)
    IN  IF ~session.ok
        THEN Call("logout", <<request>>, <<Reject(Caught("InvalidTokenError"))>>)
        ELSE IF session.owner = Undef
        THEN Call("logout", <<request>>, <<Reject(Caught("TypeError"))>>)
        ELSE Call("logout", <<request>>, <<>>)

LogoutCall(this, token) ==
    LET session == JwtDecode(token)
    IN  IF ~session.ok
        THEN Call("logout", <<>>, <<Reject(Caught("InvalidTokenError"))>>)
        ELSE IF session.owner = Undef
        THEN Call("logout", <<>>, <<Reject(Caught("TypeError"))>>)
        ELSE Call("logout",
                  <<Request("DELETE", Format(<<this.url, "session", token>>),
                            NoAuth, NoForm, Undef, NoValue)>>,
                  <<>>)

CreateCall(this, model, doc) ==
    Call("create",
         <<Request("POST", Format(<<this.url, this.version, model>>),
                   BearerAuth(this), NoForm, doc, NoValue)>>,
         <<>>)

ReadCall(this, model, id, options) ==
    LET options1 == IF IsFunction(options) THEN NoValue ELSE options
    IN  Call("read",
             <<Request("GET", Format(<<this.url, this.version, model, id>>),
                       BearerAuth(this), NoForm, Undef, options1)>>,
             <<>>)

UpdateCall(this, model, id, doc) ==
    Call("update",
         <<Request("PUT", Format(<<this.url, this.version, model, id>>),
                   BearerAuth(this), NoForm, doc, NoValue)>>,
         <<>>)

\* del sent with the DELETE verb.
DelCallWithDelete(this, model, id) ==
    Call("del",
         <<Request("DELETE", Format(<<this.url, this.version, model, id>>),
                   BearerAuth(this), NoForm, Undef, NoValue)>>,
         <<>>)

DelCall(this, model, id) ==
    Call("del",
         <<Request("PUT", Format(<<this.url, this.version, model, id>>),
                   BearerAuth(this), NoForm, Undef, NoValue)>>,
         <<>>)

SearchCall(this, model, options) ==
    LET options1 == IF IsFunction(options) THEN NoValue ELSE options
        options2 == IF FalsyValue(options1) THEN EmptyObject ELSE options1
    IN  Call("search",
             <<Request("GET", Format(<<this.url, this.version, model>>),
                       BearerAuth(this), NoForm, Undef, options2)>>,
             <<>>)

CountCall(this, model, options) ==
    LET options1 == IF IsFunction(options) THEN NoValue ELSE options
        options2 == IF FalsyValue(options1) THEN EmptyObject ELSE options1
    IN  Call("count",
             <<Request("GET", Format(<<this.url, this.version, model, "count">>),
                       BearerAuth(this), NoForm, Undef, options2)>>,
             <<>>)

\* The members resource client.
MembersCreateCall(this, doc) == CreateCall(this, MembersModel, doc)

FetchCall(this, id, options) == ReadCall(this, MembersModel, id, options)

MembersUpdateCall(this, id, update) == UpdateCall(this, MembersModel, id, update)

RemoveCall(this, id) == DelCall(this, MembersModel, id)

\* find that hands a string query to search as it is.
FindCallUnwrapped(this, query) == SearchCall(this, MembersModel, query)

FindCall(this, query) ==
    LET query1 == IF IsString(query) THEN ObjectValue(query.str, Undef) ELSE query
    IN  SearchCall(this, MembersModel, query1)

(***************************************************************************)
(* The response callbacks: whether the callback assigns this.token, how it *)
(* settles the promise, and the requests it issues itself.                 *)
(***************************************************************************)
Handled(assign, token, settles, requests) ==
    [assign |-> assign, token |-> token, settles |-> settles,
     requests |-> requests]

Settled(settlement) == Handled(FALSE, Undef, <<settlement>>, <<>>)

\* A login callback that keeps a token the instance already has.
LoginCallbackFirstWins(this, err, response, body) ==
    IF IsSet(err) THEN Settled(Reject(err))
    ELSE IF response.statusCode >= 400
    THEN Settled(Reject(NewError(Or(body.error_description, body.error))))
    ELSE Handled(TRUE, Or(this.token, body.access_token),
                 <<Resolve(BodyValue(body))>>, <<>>)

\* A login callback that resolves without storing the token.
LoginCallbackForgetful(this, err, response, body) ==
    IF IsSet(err) THEN Settled(Reject(err))
    ELSE IF response.statusCode >= 400
    THEN Settled(Reject(NewError(Or(body.error_description, body.error))))
    ELSE Settled(Resolve(BodyValue(body)))

\* The login callback closes over the instance (this.token = ...).
LoginCallback(this, err, response, body) ==
    IF IsSet(err) THEN Settled(Reject(err))
    ELSE IF response.statusCode >= 400
    THEN Settled(Reject(NewError(Or(body.error_description, body.error))))
    ELSE Handled(TRUE, body.access_token, <<Resolve(BodyValue(body))>>, <<>>)

\* A logout callback that forgets the token of the instance on success.
LogoutCallbackClearing(err, response, body) ==
    IF IsSet(err) THEN Settled(Reject(err))
    ELSE IF response.statusCode >= 400
    THEN Settled(Reject(NewError(Or(body.error_description, body.error))))
    ELSE Handled(TRUE, Undef, <<Resolve(BodyValue(body))>>, <<>>)

LogoutCallback(err, response, body) ==
    IF IsSet(err) THEN Settled(Reject(err))
    ELSE IF response.statusCode >= 400
    THEN Settled(Reject(NewError(Or(body.error_description, body.error))))
    ELSE Settled(Resolve(BodyValue(body)))

\* A create callback that rejects on an error status without returning.
CreateCallbackFallingThrough(err, response, body) ==
    IF IsSet(err) THEN Settled(Reject(err))
    ELSE IF response.statusCode >= 400
    THEN Handled(FALSE, Undef,
                 <<Reject(Scalar(Or(body.error_description, body.error))),
                   Resolve(BodyValue(body))>>, <<>>)
    ELSE Settled(Resolve(BodyValue(body)))

CreateCallback(err, response, body) ==
    IF IsSet(err) THEN Settled(Reject(err))
    ELSE IF response.statusCode >= 400
    THEN Settled(Reject(Scalar(Or(body.error_description, body.error))))
    ELSE Settled(Resolve(BodyValue(body)))

ReadCallback(err, response, body) ==
    IF IsSet(err) THEN Settled(Reject(err))
    ELSE IF response.statusCode >= 400
    THEN Settled(Reject(Scalar(Or(body.error_description, body.error))))
    ELSE Settled(Resolve(BodyValue(body)))

UpdateCallback(err, response, body) ==
    IF IsSet(err) THEN Settled(Reject(err))
    ELSE IF response.statusCode >= 400
    THEN Settled(Reject(Scalar(Or(body.error_description, body.error))))
    ELSE Settled(Resolve(BodyValue(body)))

DelCallback(err, response, body) ==
    IF IsSet(err) THEN Settled(Reject(err))
    ELSE IF response.statusCode >= 400
    THEN Settled(Reject(Scalar(Or(body.error_description, body.error))))
    ELSE Settled(Resolve(BodyValue(body)))

\* A search callback that wraps the transport's err in an Error of its own.
SearchCallbackWrapping(err, response, body) ==
    IF IsSet(err) THEN Settled(Reject(NewError(err.text)))
    ELSE IF response.statusCode >= 400
    THEN Settled(Reject(Scalar(Or(body.error_description, body.error))))
    ELSE Settled(Resolve(BodyValue(body)))

SearchCallback(err, response, body) ==
    IF IsSet(err) THEN Settled(Reject(err))
    ELSE IF response.statusCode >= 400
    THEN Settled(Reject(Scalar(Or(body.error_description, body.error))))
    ELSE Settled(Resolve(BodyValue(body)))

CountCallback(err, response, body) ==
    IF IsSet(err) THEN Settled(Reject(err))
    ELSE IF response.statusCode >= 400
    THEN Settled(Reject(Scalar(Or(body.error_description, body.error))))
    ELSE Settled(Resolve(BodyValue(body)))

\* A bearer that sets the token of the receiver and returns the receiver.
BearerCopyInPlace(heap, this, token, fresh) ==
    [heap |-> [heap EXCEPT ![this].token = Or(token, @)],
     returned |-> this]

\* bearer(token): the heap after the call and the instance returned, given
\* the free cell `fresh` a new instance is placed in.
BearerCopy(heap, this, token, fresh) ==
    LET client == Constructor("Client", heap[this])
    IN  [heap |-> [heap EXCEPT ![fresh] = [client EXCEPT !.token = Or(token, @)]],
         returned |-> fresh]

\* A members getter that hands the new instance no token.
MembersGetterWithoutToken(heap, this, fresh) ==
    [heap |-> [heap EXCEPT ![fresh] =
                 [Constructor("Members", heap[this]) EXCEPT !.token = Undef]],
     returned |-> fresh]

\* get members(): likewise.
MembersGetter(heap, this, fresh) ==
    [heap |-> [heap EXCEPT ![fresh] = Constructor("Members", heap[this])],
     returned |-> fresh]

(***************************************************************************)
(* The state.                                                              *)
(*   clients      the heap: each cell holds an instance or NoClient         *)
(*   inflight     the bag of calls whose request awaits its response       *)
(*   last         history: what the latest step of a traced caller did     *)
(*   granted      history: per instance, the access_token of the latest    *)
(*                successful login response processed on it since its      *)
(*                token was last set by its caller (NoLogin: none)         *)
(*   race         history: per instance, "overlap" while logins overlap in *)
(*                flight and none has succeeded, "early1"/"late1" once the *)
(*                earlier/a later issued one has succeeded, and            *)
(*                "inorder"/"reversed" in the state right after the last   *)
(*                of them succeeded as the second; "idle" otherwise        *)
(*   derivedFrom  history: per instance, the receiver of the bearer() or   *)
(*                members call that returned it ("none": constructed)      *)
(***************************************************************************)
VARIABLES clients, inflight, last, granted, race, derivedFrom

vars == <<clients, inflight, last, granted, race, derivedFrom>>

NoLogin == "<no login>"

NoEvent == [type |-> "none"]

\* The record of a call in flight: the callback to run, the instance the
\* callback closes over, the url and the bearer credential of its request,
\* the number of requests the call has issued, and whether it is a login
\* issued while an earlier login on the instance was in flight.
Pending(op, this, request, sent, later) ==
    [op |-> op, this |-> this, url |-> request.url,
     bearer |-> request.auth.bearer, sent |-> sent, later |-> later]

Live(this) == clients[this].cls # "none"

LoginInFlight(this) ==
    \E p \in BagToSet(inflight) : p.op = "login" /\ p.this = this

\* The options the caller constructs its instance with.
ConstructorOptions ==
    {ClientObject("options", "http://api", v, "cid", "secret", Undef) :
        v \in {Undef, "v2"}}

InitWith(options) ==
    /\ clients = [o \in Objects |->
                    IF o = "c1" THEN Constructor("Client", options) ELSE NoClient]
    /\ inflight = EmptyBag
    /\ last = NoEvent
    /\ granted = [o \in Objects |-> NoLogin]
    /\ race = [o \in Objects |-> "idle"]
    /\ derivedFrom = [o \in Objects |-> "none"]

\* The kinds of caller, `trace` in the actions: whether its steps are
\* recorded in `last`, what it awaits before its next call (every call,
\* every login, or nothing), and whether it draws its arguments from the
\* rich sets or from the thin ones.  A caller that does not await every call
\* keeps up to MaxInflight calls in flight.
Caller(records, awaits, rich) ==
    [records |-> records, awaits |-> awaits, rich |-> rich]

Sequential == Caller(TRUE, "calls", TRUE)

Concurrent == Caller(FALSE, "nothing", FALSE)

Overtaking == Caller(TRUE, "logins", FALSE)

\* The operations that authenticate with the bearer token.
BearerOps == {"create", "read", "update", "del", "search", "count"}

\* What `last` becomes at a step that did `event`.
Recorded(trace, event) == IF trace.records THEN event ELSE NoEvent

In(trace, rich, thin) == IF trace.rich THEN rich ELSE thin

\* The mark of a finished race lasts for one state.
Faded ==
    [o \in Objects |-> IF race[o] \in {"inorder", "reversed"} THEN "idle" ELSE race[o]]

\* A traced caller has a settled promise whose continuation has yet to run.
Awaited ==
    \/ last.type = "done"
    \/ last.type = "call" /\ last.call.requests = <<>>

\* A traced caller makes its next move once its last call has returned.
Ready(trace) == trace.awaits = "calls" => (inflight = EmptyBag /\ ~Awaited)

\* A concurrent caller overlaps logins with each other and with one other
\* call at a time: only the login callback writes state the calls share.
\* A caller that awaits every login has one login overtake one other call.
Overlaps(trace, op) ==
    IF op = "login"
    THEN trace.awaits = "logins" => \A p \in BagToSet(inflight) : p.op # "login"
    ELSE \A p \in BagToSet(inflight) : p.op = "login"

\* A call of `method` on `this` that did what `call` says.
Issue(trace, method, this, args, call) ==
    /\ Live(this)
    /\ Ready(trace)
    /\ Overlaps(trace, call.op)
    /\ BagCardinality(inflight) < MaxInflight
    /\ inflight' =
         IF call.requests = <<>> THEN inflight
         ELSE inflight (+) SetToBag({Pending(call.op, this, call.requests[1],
                                             Len(call.requests),
                                             call.op = "login" /\ LoginInFlight(this))})
    /\ last' = Recorded(trace,
                       [type |-> "call", method |-> method, this |-> this, client |-> clients[this], args |-> args, call |-> call])
    /\ race' = IF call.op # "login" THEN Faded
               ELSE IF ~LoginInFlight(this) THEN [Faded EXCEPT ![this] = "idle"]
               ELSE IF race[this] = "idle" THEN [Faded EXCEPT ![this] = "overlap"]
               ELSE Faded
    /\ UNCHANGED <<clients, granted, derivedFrom>>

\* The transport invokes the callback of the call in flight `p`, which
\* handles `outcome` as `handled` says.
Complete(trace, p, outcome, handled) ==
    /\ inflight' =
         IF handled.requests = <<>> THEN inflight (-) SetToBag({p})
         ELSE (inflight (-) SetToBag({p}))
              (+) SetToBag({[p EXCEPT !.sent = @ + Len(handled.requests)]})
    /\ clients' = IF handled.assign
                  THEN [clients EXCEPT ![p.this].token = handled.token]
                  ELSE clients
    /\ last' = Recorded(trace,
                       [type |-> "done", op |-> p.op, this |-> p.this, url |-> p.url, bearer |-> p.bearer, outcome |-> outcome, handled |-> handled])
    /\ LET success == p.op = "login" /\ ~IsSet(outcome.err)
                      /\ outcome.response.statusCode < 400
           racing == \E q \in BagToSet(inflight') : q.op = "login" /\ q.this = p.this
       IN  /\ granted' = IF success
                         THEN [granted EXCEPT ![p.this] = outcome.body.access_token]
                         ELSE granted
           /\ race' = IF p.op # "login" THEN Faded
                      ELSE [Faded EXCEPT ![p.this] =
                              CASE @ = "overlap" /\ success /\ racing ->
                                     IF p.later THEN "late1" ELSE "early1"
                                [] @ = "early1" /\ success /\ ~racing -> "inorder"
                                [] @ = "late1" /\ success /\ ~racing -> "reversed"
                                [] racing -> @
                                [] OTHER -> "idle"]
    /\ UNCHANGED derivedFrom

(***************************************************************************)
(* The operations of Client.                                               *)
(***************************************************************************)
Login(trace, this, creds, options) ==
    /\ Live(this)
    /\ Issue(trace, "login", this, [creds |-> creds, options |-> options],
             LoginCall(clients[this], creds, options))

Logout(trace, this, token) ==
    /\ Live(this)
    /\ Issue(trace, "logout", this, [token |-> token],
             LogoutCall(clients[this], token))

\* Members overrides create and update with signatures of its own.
Create(trace, this, model, doc) ==
    /\ clients[this].cls = "Client"
    /\ Issue(trace, "create", this, [model |-> model, doc |-> doc],
             CreateCall(clients[this], model, doc))

Read(trace, this, model, id, options) ==
    /\ Live(this)
    /\ Issue(trace, "read", this, [model |-> model, id |-> id, options |-> options],
             ReadCall(clients[this], model, id, options))

Update(trace, this, model, id, doc) ==
    /\ clients[this].cls = "Client"
    /\ Issue(trace, "update", this, [model |-> model, id |-> id, doc |-> doc],
             UpdateCall(clients[this], model, id, doc))

Del(trace, this, model, id) ==
    /\ Live(this)
    /\ Issue(trace, "del", this, [model |-> model, id |-> id],
             DelCall(clients[this], model, id))

Search(trace, this, model, options) ==
    /\ Live(this)
    /\ Issue(trace, "search", this, [model |-> model, options |-> options],
             SearchCall(clients[this], model, options))

Count(trace, this, model, options) ==
    /\ Live(this)
    /\ Issue(trace, "count", this, [model |-> model, options |-> options],
             CountCall(clients[this], model, options))

\* bearer(token) and the members getter allocate the instance they return.
Bearer(trace, this, token) ==
    /\ Live(this)
    /\ Ready(trace)
    /\ \E fresh \in Objects :
         /\ ~Live(fresh)
         /\ LET made == BearerCopy(clients, this, token, fresh)
            IN  /\ clients' = made.heap
                /\ derivedFrom' = [derivedFrom EXCEPT ![made.returned] = this]
                /\ last' = Recorded(trace,
                       [type |-> "bearer", this |-> this, token |-> token, returned |-> made.returned])
    /\ race' = Faded
    /\ UNCHANGED <<inflight, granted>>

Members(trace, this) ==
    /\ Live(this)
    /\ Ready(trace)
    /\ \E fresh \in Objects :
         /\ ~Live(fresh)
         /\ LET made == MembersGetter(clients, this, fresh)
            IN  /\ clients' = made.heap
                /\ derivedFrom' = [derivedFrom EXCEPT ![made.returned] = this]
                /\ last' = Recorded(trace,
                       [type |-> "members", this |-> this, returned |-> made.returned])
    /\ race' = Faded
    /\ UNCHANGED <<inflight, granted>>

\* The caller assigns the public token field.
SetToken(trace, this, token) ==
    /\ Live(this)
    /\ Ready(trace)
    /\ clients' = [clients EXCEPT ![this].token = token]
    /\ granted' = [granted EXCEPT ![this] = NoLogin]
    /\ race' = [Faded EXCEPT ![this] = "idle"]
    /\ last' = Recorded(trace,
                       [type |-> "assign", this |-> this, token |-> token])
    /\ UNCHANGED <<inflight, derivedFrom>>

(***************************************************************************)
(* The operations of Members.                                              *)
(***************************************************************************)
MembersCreate(trace, this, doc) ==
    /\ clients[this].cls = "Members"
    /\ Issue(trace, "members.create", this, [doc |-> doc],
             MembersCreateCall(clients[this], doc))

Fetch(trace, this, id, options) ==
    /\ clients[this].cls = "Members"
    /\ Issue(trace, "fetch", this, [id |-> id, options |-> options],
             FetchCall(clients[this], id, options))

MembersUpdate(trace, this, id, update) ==
    /\ clients[this].cls = "Members"
    /\ Issue(trace, "members.update", this, [id |-> id, update |-> update],
             MembersUpdateCall(clients[this], id, update))

Remove(trace, this, id) ==
    /\ clients[this].cls = "Members"
    /\ Issue(trace, "remove", this, [id |-> id],
             RemoveCall(clients[this], id))

Find(trace, this, query) ==
    /\ clients[this].cls = "Members"
    /\ Issue(trace, "find", this, [query |-> query],
             FindCall(clients[this], query))

(***************************************************************************)
(* The transport invokes the response callback of a call in flight.        *)
(***************************************************************************)
OnLogin(trace, p, o) ==
    /\ p.op = "login"
    /\ Complete(trace, p, o, LoginCallback(clients[p.this], o.err, o.response, o.body))

OnLogout(trace, p, o) ==
    /\ p.op = "logout"
    /\ Complete(trace, p, o, LogoutCallback(o.err, o.response, o.body))

OnCreate(trace, p, o) ==
    /\ p.op = "create"
    /\ Complete(trace, p, o, CreateCallback(o.err, o.response, o.body))

OnRead(trace, p, o) ==
    /\ p.op = "read"
    /\ Complete(trace, p, o, ReadCallback(o.err, o.response, o.body))

OnUpdate(trace, p, o) ==
    /\ p.op = "update"
    /\ Complete(trace, p, o, UpdateCallback(o.err, o.response, o.body))

OnDel(trace, p, o) ==
    /\ p.op = "del"
    /\ Complete(trace, p, o, DelCallback(o.err, o.response, o.body))

OnSearch(trace, p, o) ==
    /\ p.op = "search"
    /\ Complete(trace, p, o, SearchCallback(o.err, o.response, o.body))

OnCount(trace, p, o) ==
    /\ p.op = "count"
    /\ Complete(trace, p, o, CountCallback(o.err, o.response, o.body))

(***************************************************************************)
(* The arguments and responses of a concurrent caller.                     *)
(***************************************************************************)
ThinOutcomes ==
    {TransportFailure,
     Outcome(Undefined, [statusCode |-> 400], Body(Undef, "unauthorized", Undef))}
    \cup {Outcome(Undefined, [statusCode |-> 200], Body(Undef, Undef, t)) :
            t \in SessionTokens}

Steps(trace) ==
    \/ \E this \in Objects, creds \in In(trace, CredentialArgs, {NoCredentials}),
          options \in In(trace, LoginOptionArgs, {NoLoginOptions}) :
         Login(trace, this, creds, options)
    \/ \E this \in Objects, token \in In(trace, LogoutTokens, {"jwtA", "garbage"}) :
         Logout(trace, this, token)
    \/ \E this \in Objects, model \in In(trace, Models, {"members"}), doc \in Docs :
         Create(trace, this, model, doc)
    \/ \E this \in Objects, model \in In(trace, Models, {"members"}),
          id \in In(trace, Ids, {"1"}), options \in In(trace, QueryOptions, {NoValue}) :
         Read(trace, this, model, id, options)
    \/ \E this \in Objects, model \in In(trace, Models, {"members"}),
          id \in In(trace, Ids, {"1"}), doc \in Docs :
         Update(trace, this, model, id, doc)
    \/ \E this \in Objects, model \in In(trace, Models, {"members"}),
          id \in In(trace, Ids, {"1"}) :
         Del(trace, this, model, id)
    \/ \E this \in Objects, model \in In(trace, Models, {"members"}),
          options \in In(trace, QueryOptions, {NoValue}) :
         Search(trace, this, model, options)
    \/ \E this \in Objects, model \in In(trace, Models, {"members"}),
          options \in In(trace, QueryOptions, {NoValue}) :
         Count(trace, this, model, options)
    \/ \E this \in Objects, token \in TokenValues : Bearer(trace, this, token)
    \/ \E this \in Objects : Members(trace, this)
    \/ \E this \in Objects, token \in TokenValues : SetToken(trace, this, token)
    \/ \E this \in Objects, doc \in Docs : MembersCreate(trace, this, doc)
    \/ \E this \in Objects, id \in In(trace, Ids, {"1"}),
          options \in In(trace, QueryOptions, {NoValue}) :
         Fetch(trace, this, id, options)
    \/ \E this \in Objects, id \in In(trace, Ids, {"1"}), doc \in Docs :
         MembersUpdate(trace, this, id, doc)
    \/ \E this \in Objects, id \in In(trace, Ids, {"1"}) : Remove(trace, this, id)
    \/ \E this \in Objects, query \in In(trace, FindQueries, {StringValue("abc")}) :
         Find(trace, this, query)
    \/ \E p \in BagToSet(inflight), o \in In(trace, Outcomes, ThinOutcomes) :
         OnLogin(trace, p, o)
    \/ \E p \in BagToSet(inflight), o \in In(trace, Outcomes, ThinOutcomes) :
         OnLogout(trace, p, o)
    \/ \E p \in BagToSet(inflight), o \in In(trace, Outcomes, ThinOutcomes) :
         OnCreate(trace, p, o)
    \/ \E p \in BagToSet(inflight), o \in In(trace, Outcomes, ThinOutcomes) :
         OnRead(trace, p, o)
    \/ \E p \in BagToSet(inflight), o \in In(trace, Outcomes, ThinOutcomes) :
         OnUpdate(trace, p, o)
    \/ \E p \in BagToSet(inflight), o \in In(trace, Outcomes, ThinOutcomes) :
         OnDel(trace, p, o)
    \/ \E p \in BagToSet(inflight), o \in In(trace, Outcomes, ThinOutcomes) :
         OnSearch(trace, p, o)
    \/ \E p \in BagToSet(inflight), o \in In(trace, Outcomes, ThinOutcomes) :
         OnCount(trace, p, o)

\* The continuation of a settled promise runs (.then, or the node-style
\* callback given to nodeify): the traced caller goes on.
Await ==
    /\ Awaited
    /\ last' = NoEvent
    /\ race' = Faded
    /\ UNCHANGED <<clients, inflight, granted, derivedFrom>>

\* A caller that awaits each call: every step is recorded in `last`.
Init == \E options \in ConstructorOptions : InitWith(options)

Next == Steps(Sequential) \/ Await

Spec == Init /\ [][Next]_vars

\* A caller that keeps several calls in flight.
InitConcurrent == InitWith(ClientObject("options", "http://api", Undef, "cid", "secret", Undef))

NextConcurrent == Steps(Concurrent)

SpecConcurrent == InitConcurrent /\ [][NextConcurrent]_vars

\* A caller whose logins overtake its other calls, every step recorded.
InitOvertaking == InitWith(ClientObject("options", "http://api", Undef, "cid", "secret", Undef))

NextOvertaking == Steps(Overtaking)

SpecOvertaking == InitOvertaking /\ [][NextOvertaking]_vars

(***************************************************************************)
(* Properties of a single call, checked under Spec.                        *)
(***************************************************************************)
\* The latest step processed a response with status >= 400.
ErrorStatusDone ==
    /\ last.type = "done"
    /\ ~IsSet(last.outcome.err)
    /\ last.outcome.response.statusCode >= 400

\* The value is an Error object whose message is `message`.
IsErrorWithMessage(value, message) ==
    /\ value.kind = "Error"
    /\ value.text = IF message = Undef THEN "" ELSE message

\* C1: for every operation, a response with status >= 400 rejects the call
\* with an error whose message is the body's error_description if there is
\* one (read here as: a non-empty one) and the body's error otherwise;
\* stated for the bodies that carry one of the two.
C1_RejectsWithErrorMessage ==
    (/\ ErrorStatusDone
     /\ Truthy(Or(last.outcome.body.error_description, last.outcome.body.error)))
    =>
        /\ Len(last.handled.settles) = 1
        /\ last.handled.settles[1].how = "reject"
        /\ IsErrorWithMessage(last.handled.settles[1].value,
                              Or(last.outcome.body.error_description,
                                 last.outcome.body.error))

\* C2: for every operation, when the transport reports a failure the call
\* rejects with exactly the err it was given, and does nothing else.
C2_TransportErrorPassedThrough ==
    (last.type = "done" /\ IsSet(last.outcome.err)) =>
        /\ last.handled.settles = <<Reject(last.outcome.err)>>
        /\ ~last.handled.assign
        /\ last.handled.requests = <<>>

C2_Witness ==
    /\ last.type = "done"
    /\ last.op = "search"
    /\ last.outcome = TransportFailure
    /\ last.handled.settles[1].value = TransportError("ECONNRESET")

\* The latest step processed a successful login response.
LoginSucceeded ==
    /\ last.type = "done"
    /\ last.op = "login"
    /\ ~IsSet(last.outcome.err)
    /\ last.outcome.response.statusCode < 400

\* C3: once a login response without transport error and with status < 400
\* has been processed, the instance's token is the body's access_token, and
\* every create/read/update/del/search/count call made on the instance
\* from then on, until another login succeeds, sends it as its bearer
\* credential.
C3_LoginTokenIsSent ==
    /\ LoginSucceeded =>
         clients[last.this].token = last.outcome.body.access_token
    /\ (/\ last.type = "call"
        /\ last.call.op \in BearerOps
        /\ granted[last.this] # NoLogin)
       => /\ Len(last.call.requests) = 1
          /\ last.call.requests[1].auth =
               Auth("bearer", Undef, Undef, granted[last.this])

C3_Witness ==
    /\ last.type = "call"
    /\ last.method = "count"
    /\ granted[last.this] = "jwtB"
    /\ last.call.requests[1].auth.bearer = "jwtB"

\* The tokens logout cannot take an owner's name from.
Undecodable == {"garbage", Undef, OwnerlessToken}

\* C6: a logout whose token cannot be decoded, or whose payload has no
\* owner, rejects with the exception the decoding raised and issues no
\* request.
C6_LogoutDecodeFailure ==
    (/\ last.type = "call"
     /\ last.method = "logout"
     /\ last.args.token \in Undecodable)
    => /\ last.call.requests = <<>>
       /\ inflight = EmptyBag
       /\ Len(last.call.settles) = 1
       /\ last.call.settles[1].how = "reject"
       /\ last.call.settles[1].value.kind \in {"InvalidTokenError", "TypeError"}

C6_Witness ==
    /\ last.type = "call"
    /\ last.method = "logout"
    /\ last.args.token = OwnerlessToken
    /\ last.call.settles = <<Reject(Caught("TypeError"))>>
    /\ inflight = EmptyBag

C8_FindIsSearchWithFilter ==
    (last.type = "call" /\ last.method = "find") =>
        LET base == [last.client EXCEPT !.cls = "Client"]
            query == last.args.query
        IN  last.call =
              IF query.type = "string"
              THEN SearchCall(base, "members", ObjectValue(query.str, Undef))
              ELSE SearchCall(base, "members", query)

C8_Witness ==
    /\ last.type = "call"
    /\ last.method = "find"
    /\ last.args.query = StringValue("abc")
    /\ last.call.op = "search"
    /\ last.call.requests[1].qs = ObjectValue("abc", Undef)
    /\ last.call.requests[1].url = <<"http://api", "v1", "members">>
    /\ last.call.requests[1].auth.bearer = "jwtA"

\* The latest step was a login call; what it was given and what it sent.
LoginCalled == last.type = "call" /\ last.method = "login"

GivenGrantType == last.args.options.grant_type

BothCredentials ==
    Truthy(last.args.creds.username) /\ Truthy(last.args.creds.password)

SentGrantType == last.call.requests[1].form.grant_type

\* C9 as stated: 'password' when username and password are both present and
\* no grant_type was given, 'client_credentials' in every other case where
\* none was given, and a grant_type that was given is sent unchanged.
C9_GrantTypeAsStated ==
    LoginCalled =>
        SentGrantType =
            IF GivenGrantType # Undef THEN GivenGrantType
            ELSE IF BothCredentials THEN "password"
            ELSE "client_credentials"

\* C9 as amended: a non-empty grant_type that was given is sent unchanged;
\* an empty one is replaced by 'password' when username and password are
\* both present and sent as it is otherwise; when none was given, 'password'
\* is sent if both are present and 'client_credentials' otherwise.
C9_GrantTypeSent ==
    LoginCalled =>
        SentGrantType =
            IF Truthy(GivenGrantType) THEN GivenGrantType
            ELSE IF BothCredentials THEN "password"
            ELSE IF GivenGrantType = "" THEN ""
            ELSE "client_credentials"

C9_Witness ==
    /\ LoginCalled
    /\ GivenGrantType = ""
    /\ last.args.creds.username = "alice"
    /\ last.args.creds.password = "pw"
    /\ SentGrantType = "password"

\* The latest step was a call that issued a request.
Requested == last.type = "call" /\ last.call.requests # <<>>

\* The model a call names: the members client fixes it.
CalledModel ==
    IF last.method \in {"members.create", "fetch", "members.update", "remove", "find"}
    THEN "members"
    ELSE last.args.model

\* The verb, path and authentication of the request of the latest call.
Sends(verb, path, authType) ==
    /\ Len(last.call.requests) = 1
    /\ last.call.requests[1].verb = verb
    /\ last.call.requests[1].url = [i \in DOMAIN path |-> Fmt(path[i])]
    /\ last.call.requests[1].auth.type = authType
    /\ authType = "bearer" => last.call.requests[1].auth.bearer = last.client.token
    /\ authType = "none" => last.call.requests[1].auth = NoAuth

\* C10: every operation sends the verb, path and authentication of the
\* operations table (del sends PUT).
C10_OperationsTable ==
    Requested =>
        LET url == last.client.url
            version == last.client.version
        IN  CASE last.call.op = "login" ->
                   Sends("POST", <<url, "session">>, "basic")
              [] last.call.op = "logout" ->
                   Sends("DELETE", <<url, "session", last.args.token>>, "none")
              [] last.call.op = "create" ->
                   Sends("POST", <<url, version, CalledModel>>, "bearer")
              [] last.call.op = "read" ->
                   Sends("GET", <<url, version, CalledModel, last.args.id>>, "bearer")
              [] last.call.op = "update" ->
                   Sends("PUT", <<url, version, CalledModel, last.args.id>>, "bearer")
              [] last.call.op = "del" ->
                   Sends("PUT", <<url, version, CalledModel, last.args.id>>, "bearer")
              [] last.call.op = "search" ->
                   Sends("GET", <<url, version, CalledModel>>, "bearer")
              [] last.call.op = "count" ->
                   Sends("GET", <<url, version, CalledModel, "count">>, "bearer")

C10_Witness ==
    /\ Requested
    /\ last.method = "del"
    /\ last.call.requests[1].verb = "PUT"
    /\ last.call.requests[1].url = <<"http://api", "v2", "members", "1">>
    /\ last.call.requests[1].auth.bearer = "jwtA"

(***************************************************************************)
(* Properties of instances and of overlapping calls, checked under         *)
(* SpecConcurrent.                                                         *)
(***************************************************************************)
\* The configuration two instances share.
SameConfiguration(a, b) ==
    /\ a.url = b.url
    /\ a.version = b.version
    /\ a.client_id = b.client_id
    /\ a.client_secret = b.client_secret

\* The step returned the instance `made` from bearer() called on `this`.
BearerReturned(this, made) ==
    /\ derivedFrom'[made] = this
    /\ derivedFrom[made] # this
    /\ clients'[made].cls = "Client"

\* C4: bearer(tok) returns an instance that is not the receiver and has the
\* receiver's url, version, client_id and client_secret, and leaves the
\* receiver as it was; from then on a step that changes the token of one
\* instance (a login response or an assignment) leaves the token of every
\* other instance unchanged.
C4_BearerIsIndependentCopy ==
    [][/\ \A this, made \in Objects :
            BearerReturned(this, made) =>
                /\ made # this
                /\ SameConfiguration(clients'[made], clients[this])
                /\ clients'[this] = clients[this]
       /\ \A a, b \in Objects :
            (/\ a # b
             /\ Live(a)
             /\ Live(b)
             /\ clients'[a].token # clients[a].token)
            => clients'[b].token = clients[b].token]_vars

C4_Witness ==
    /\ derivedFrom["c2"] = "c1"
    /\ clients["c2"].cls = "Client"
    /\ SameConfiguration(clients["c2"], clients["c1"])
    /\ granted["c2"] = "jwtB"
    /\ clients["c2"].token = "jwtB"
    /\ clients["c1"].token = "jwtA"

\* C5: once no login is in flight on an instance, its token is the
\* access_token of the successful login whose response was processed last
\* (since the caller last assigned the token), whatever the order the
\* logins were issued in.
C5_LastProcessedLoginWins ==
    \A this \in Objects :
        (Live(this) /\ ~LoginInFlight(this) /\ granted[this] # NoLogin)
        => clients[this].token = granted[this]

\* Two logins overlapped, the one issued later succeeded first and the one
\* issued earlier succeeded last, with jwtA.
C5_Witness ==
    /\ race["c1"] = "reversed"
    /\ ~LoginInFlight("c1")
    /\ granted["c1"] = "jwtA"
    /\ clients["c1"].token = "jwtA"

(***************************************************************************)
(* Properties of the requests and of the token, checked under Spec and     *)
(* SpecOvertaking.                                                         *)
(***************************************************************************)
\* The operations whose path ends in an identifier.
IdOps == {"read", "update", "del"}

\* The latest step was a call of an operation on a model.
ModelCalled == last.type = "call" /\ last.call.op \in BearerOps

\* The model, and the identifier if the operation takes one, are non-empty.
NamesGiven ==
    /\ Truthy(CalledModel)
    /\ last.call.op \in IdOps => Truthy(last.args.id)

\* C11: every request of create/read/update/del/search/count has a
\* non-empty model segment, and a non-empty identifier segment for
\* read/update/del; a call given an empty model or identifier issues no
\* request.
C11_RequestsCarryModelAndId ==
    ModelCalled =>
        /\ ~NamesGiven => last.call.requests = <<>>
        /\ \A i \in DOMAIN last.call.requests :
             /\ last.call.requests[i].url[3] # ""
             /\ last.call.op \in IdOps => last.call.requests[i].url[4] # ""

\* The step issued the call in flight `p`.
IssuedNow(p) == CopiesIn(p, inflight') > CopiesIn(p, inflight)

\* The step processed the response of the call in flight `p`.
ProcessedNow(p) == CopiesIn(p, inflight') < CopiesIn(p, inflight)

\* What a create/read/update/del/search/count call settles with, given the
\* response alone.
ResultOf(outcome) ==
    IF IsSet(outcome.err) THEN Reject(outcome.err)
    ELSE IF outcome.response.statusCode >= 400
    THEN Reject(Scalar(Or(outcome.body.error_description, outcome.body.error)))
    ELSE Resolve(BodyValue(outcome.body))

\* C12: a create/read/update/del/search/count call sends the token the
\* instance has when the call is made; a login response processed on the
\* instance while the call is in flight leaves the call's request, with the
\* token it carries, as it was, and the call settles as its own response
\* alone decides.
C12_BearerReadAtCallTime ==
    [][/\ \A p \in BagToSet(inflight') :
            (p.op \in BearerOps /\ IssuedNow(p)) =>
                p.bearer = clients[p.this].token
       /\ \A p, q \in BagToSet(inflight) :
            (/\ p.op \in BearerOps
             /\ q.op = "login"
             /\ q.this = p.this
             /\ ProcessedNow(q))
            => CopiesIn(p, inflight') = CopiesIn(p, inflight)
       /\ (last'.type = "done" /\ last'.op \in BearerOps) =>
            /\ last'.handled.settles = <<ResultOf(last'.outcome)>>
            /\ ~last'.handled.assign
            /\ clients' = clients]_vars

\* A read issued without a token was overtaken by a login that stored jwtA,
\* and then resolved with its own response.
C12_Witness ==
    /\ last.type = "done"
    /\ last.op = "read"
    /\ last.bearer = Undef
    /\ granted[last.this] = "jwtA"
    /\ clients[last.this].token = "jwtA"
    /\ last.outcome.response.statusCode = 200
    /\ last.handled.settles = <<Resolve(BodyValue(last.outcome.body))>>

\* The step changed the token of the instance `this`.
TokenChanged(this) ==
    /\ Live(this)
    /\ clients'[this].token # clients[this].token

\* The step processed a login response on `this` with no transport error
\* and a status below 400.
LoginSucceededOn(this) ==
    /\ last'.type = "done"
    /\ last'.op = "login"
    /\ last'.this = this
    /\ ~IsSet(last'.outcome.err)
    /\ last'.outcome.response.statusCode < 400

\* The step was the caller's own assignment to the token field of `this`.
AssignedBy(this) == last'.type = "assign" /\ last'.this = this

\* C13: no operation changes the token of an instance except a login whose
\* response, with no transport error and a status below 400, is processed
\* on it: a failed login, every logout and every
\* create/read/update/del/search/count leave every token as it was, and a
\* later call still sends the token the instance holds (the caller's own
\* assignment to the field is not an operation).
C13_OnlyLoginChangesToken ==
    [][/\ \A this \in Objects :
            TokenChanged(this) => (LoginSucceededOn(this) \/ AssignedBy(this))
       /\ (last'.type = "done" /\ ~LoginSucceededOn(last'.this)) =>
            clients' = clients
       /\ (last'.type = "call" /\ last'.call.op \in BearerOps) =>
            /\ clients' = clients
            /\ last'.call.requests[1].auth.bearer = clients[last'.this].token]_vars

\* A logout of the token the instance holds has succeeded and the instance
\* still holds it.
C13_Witness ==
    /\ last.type = "done"
    /\ last.op = "logout"
    /\ last.url = <<"http://api", "session", "jwtA">>
    /\ ~IsSet(last.outcome.err)
    /\ last.outcome.response.statusCode = 200
    /\ clients[last.this].token = "jwtA"

\* The step was an access of `this.members` that returned `made`.
MembersReturned(this, made) ==
    /\ last'.type = "members"
    /\ last'.this = this
    /\ last'.returned = made

\* `made` is a members client obtained from the base client `this`.
MembersOf(this, made) ==
    /\ derivedFrom[made] = this
    /\ clients[made].cls = "Members"

\* C14: the members accessor returns a new instance of Members with the
\* base client's configuration and the token the base client holds at that
\* moment, and leaves the base client as it was; from then on a step that
\* changes the token of the base client leaves the token of the members
\* client unchanged, and the other way round, and a call on the members
\* client sends the members client's own token.
C14_MembersCopiesToken ==
    [][/\ \A this, made \in Objects :
            MembersReturned(this, made) =>
                /\ made # this
                /\ ~Live(made)
                /\ clients'[made].cls = "Members"
                /\ clients'[made].token = clients[this].token
                /\ SameConfiguration(clients'[made], clients[this])
                /\ clients'[this] = clients[this]
       /\ \A this, made \in Objects :
            MembersOf(this, made) =>
                /\ TokenChanged(this) => clients'[made].token = clients[made].token
                /\ TokenChanged(made) => clients'[this].token = clients[this].token
       /\ \A this, made \in Objects :
            (/\ MembersOf(this, made)
             /\ last'.type = "call"
             /\ last'.this = made
             /\ last'.call.op \in BearerOps)
            => last'.call.requests[1].auth.bearer = clients[made].token]_vars

\* A members client obtained from c1 sends jwtB, the token of the login that
\* succeeded on it, while c1 holds jwtA, the token of the login that
\* succeeded on c1.
C14_Witness ==
    /\ derivedFrom["c2"] = "c1"
    /\ clients["c2"].cls = "Members"
    /\ granted["c1"] = "jwtA"
    /\ clients["c1"].token = "jwtA"
    /\ granted["c2"] = "jwtB"
    /\ clients["c2"].token = "jwtB"
    /\ last.type = "call"
    /\ last.method = "fetch"
    /\ last.this = "c2"
    /\ last.call.requests[1].auth.bearer = "jwtB"

=============================================================================
